---- MODULE Spec2Model ----
(***************************************************************************)
(* The register subsystem of helix-view (src/helix-view/src/register.rs):  *)
(* the Registers map from single-character names to Register objects, the  *)
(* in-memory SimpleRegister, the special registers, and the two clipboard  *)
(* registers with their matching algorithm.                                *)
(*                                                                         *)
(* A text (Rust String / &str) is a sequence of one-character strings, so  *)
(* that join, starts_with and slicing are computed, not assumed.           *)
(***************************************************************************)
EXTENDS Integers, Sequences, FiniteSets, TLC

VARIABLES
    inner,      \* Registers.inner : HashMap<char, Box<dyn Register>>
    editor,     \* the Editor state the registers consult (line ending, clipboards)
    op          \* the last call made on the registry: its arguments and what it returned

vars == <<inner, editor, op>>

-----------------------------------------------------------------------------
(* Bounds of the model *)

\* longest value sequence a caller writes, and longest a register grows to by push
MaxValues == 2
\* most SimpleRegisters alive in the map at one time
MaxSimple == 1

-----------------------------------------------------------------------------
(* Names and texts *)

SPECIAL_REGISTERS == {"_", "#", ".", "%", "*", "+"}

UserNames == {"a", "b"}

Names == SPECIAL_REGISTERS \cup UserNames

ClipboardNames == {"*", "+"}

LF   == <<"\n">>
CRLF == <<"\r", "\n">>
LineEndings == {LF, CRLF}

\* the fragments callers yank
Values == {<<"a">>, <<"b">>}

\* texts another process may put on a clipboard channel
ExternalTexts == {<<"z", "z", "z">>, <<"a", "\n", "b">>, <<"a", "\n", "b", "z">>, <<>>}

RECURSIVE SeqsUpTo(_, _)
SeqsUpTo(S, n) ==
    IF n = 0 THEN {<<>>}
    ELSE LET shorter == SeqsUpTo(S, n - 1)
         IN  shorter \cup {Append(s, x) : s \in {t \in shorter : Len(t) = n - 1}, x \in S}

ValueSeqs == SeqsUpTo(Values, MaxValues)

-----------------------------------------------------------------------------
(* Vec and str helpers of the standard library, as the code uses them *)

\* Vec::reverse
reverse(v) == [i \in 1..Len(v) |-> v[Len(v) + 1 - i]]

\* str::starts_with
starts_with(s, prefix) ==
    /\ Len(prefix) <= Len(s)
    /\ SubSeq(s, 1, Len(prefix)) = prefix

\* &s[n..]
slice_from(s, n) == SubSeq(s, n + 1, Len(s))

\* [String]::join(sep)
RECURSIVE join(_, _)
join(values, sep) ==
    IF values = <<>> THEN <<>>
    ELSE IF Len(values) = 1 THEN values[1]
    ELSE values[1] \o sep \o join(Tail(values), sep)

-----------------------------------------------------------------------------
(* Option and Result *)

None == [tag |-> "None"]
Some(x) == [tag |-> "Some", val |-> x]

Ok == [tag |-> "Ok"]
\* anyhow!("The '{}' register is not writable", self.name())
NotWritable(n) == [tag |-> "Err", msg |-> "register is not writable", register |-> n]
\* the error ClipboardProvider::set_contents returns
TransportError == [tag |-> "Err", msg |-> "clipboard transport"]

-----------------------------------------------------------------------------
(* The editor state the registers consult *)

\* crate::clipboard::ClipboardType
ClipboardType == {"Clipboard", "Selection"}

\* doc!(editor).line_ending
line_ending(ed) == ed.line_ending

\* editor.clipboard_provider.get_contents(clipboard_type); `up` is whether the
\* transport answers this call
get_contents(ed, clipboard_type, up) ==
    IF up THEN [tag |-> "Ok", val |-> ed.clipboard[clipboard_type]] ELSE TransportError

\* editor.clipboard_provider.set_contents(joined, clipboard_type)
set_contents(ed, contents, clipboard_type, up) ==
    IF up
    THEN [editor |-> [ed EXCEPT !.clipboard[clipboard_type] = contents], ret |-> Ok]
    ELSE [editor |-> ed, ret |-> TransportError]

-----------------------------------------------------------------------------
(* The register kinds: what Default::default() builds for each *)

NoRegister == [kind |-> "NoRegister"]

SimpleRegister(n, values) == [kind |-> "SimpleRegister", name |-> n, values |-> values]
BlackholeRegister         == [kind |-> "BlackholeRegister"]
SelectionIndexRegister    == [kind |-> "SelectionIndexRegister"]
SelectionContentsRegister == [kind |-> "SelectionContentsRegister"]
DocumentPathRegister      == [kind |-> "DocumentPathRegister"]
SystemClipboardRegister(values)  == [kind |-> "SystemClipboardRegister", values |-> values]
PrimaryClipboardRegister(values) == [kind |-> "PrimaryClipboardRegister", values |-> values]

ClipboardKinds == {"SystemClipboardRegister", "PrimaryClipboardRegister"}
ReadOnlyKinds  == {"SelectionIndexRegister", "SelectionContentsRegister", "DocumentPathRegister"}
StoringKinds   == {"SimpleRegister"} \cup ClipboardKinds

\* mutant: the values are stored as given
new_with_values_unreversed(n, values) == SimpleRegister(n, values)

\* mutant: the register is built under a fixed name, not the one it is keyed by
new_with_values_anonymous(n, values) == SimpleRegister("a", reverse(values))

\* SimpleRegister::new_with_values: the values are stored reversed
new_with_values(n, values) == SimpleRegister(n, reverse(values))

\* Register::name of each impl
name(reg) ==
    CASE reg.kind = "SimpleRegister"            -> reg.name
      [] reg.kind = "BlackholeRegister"         -> "_"
      [] reg.kind = "SelectionIndexRegister"    -> "#"
      [] reg.kind = "SelectionContentsRegister" -> "."
      [] reg.kind = "DocumentPathRegister"      -> "%"
      [] reg.kind = "SystemClipboardRegister"   -> "*"
      [] reg.kind = "PrimaryClipboardRegister"  -> "+"

\* mutant: both clipboard registers pass ClipboardType::Clipboard
clipboard_type_system(reg) == "Clipboard"

\* the ClipboardType each clipboard register passes on
clipboard_type(reg) ==
    IF reg.kind = "SystemClipboardRegister" THEN "Clipboard" ELSE "Selection"

-----------------------------------------------------------------------------
(* Clipboard helpers *)

\* mutant: the values are joined with "\n" whatever the document's line ending
save_to_clipboard_lf(values, ed, ctype, up) ==
    LET joined == join(values, LF)
    IN  set_contents(ed, joined, ctype, up)

save_to_clipboard(values, ed, ctype, up) ==
    LET joined == join(values, line_ending(ed))
    IN  set_contents(ed, joined, ctype, up)

\* the loop of contents_are_saved over the values after the first
RECURSIVE contents_are_saved_rest(_, _, _)
contents_are_saved_rest(values, le, contents) ==
    IF values = <<>> THEN TRUE
    ELSE IF /\ starts_with(contents, le)
            /\ starts_with(slice_from(contents, Len(le)), values[1])
         THEN contents_are_saved_rest(Tail(values), le,
                                      slice_from(contents, Len(le) + Len(values[1])))
         ELSE FALSE

\* mutant: the contents must be the join, with nothing left over
contents_are_saved_exact(saved_values, ed, contents) ==
    saved_values # <<>> /\ contents = join(saved_values, line_ending(ed))

\* mutant: with nothing saved there is nothing to miss
contents_are_saved_vacuous(saved_values, ed, contents) ==
    IF saved_values = <<>> THEN TRUE
    ELSE IF starts_with(contents, saved_values[1])
    THEN contents_are_saved_rest(Tail(saved_values), line_ending(ed),
                                 slice_from(contents, Len(saved_values[1])))
    ELSE FALSE

\* mutant: the separator looked for is "\n" whatever the document's line ending
contents_are_saved_lf(saved_values, ed, contents) ==
    IF saved_values # <<>> /\ starts_with(contents, saved_values[1])
    THEN contents_are_saved_rest(Tail(saved_values), LF,
                                 slice_from(contents, Len(saved_values[1])))
    ELSE FALSE

contents_are_saved(saved_values, ed, contents) ==
    IF saved_values # <<>> /\ starts_with(contents, saved_values[1])
    THEN contents_are_saved_rest(Tail(saved_values), line_ending(ed),
                                 slice_from(contents, Len(saved_values[1])))
    ELSE FALSE

\* mutant: the saved values are yielded whatever the clipboard holds
read_from_clipboard_saved(saved_values, ed, ctype, up) ==
    LET got == get_contents(ed, ctype, up)
    IN  IF got.tag = "Ok" THEN saved_values ELSE <<>>

\* mutant: when the transport fails the saved values are yielded
read_from_clipboard_fallback(saved_values, ed, ctype, up) ==
    LET got == get_contents(ed, ctype, up)
    IN  IF got.tag = "Ok"
        THEN IF contents_are_saved(saved_values, ed, got.val)
             THEN saved_values
             ELSE <<got.val>>
        ELSE saved_values

read_from_clipboard(saved_values, ed, ctype, up) ==
    LET got == get_contents(ed, ctype, up)
    IN  IF got.tag = "Ok"
        THEN IF contents_are_saved(saved_values, ed, got.val)
             THEN saved_values
             ELSE <<got.val>>
        ELSE <<>>

-----------------------------------------------------------------------------
(* impl Register for each kind.  write and push return the register as the  *)
(* call leaves it, the editor as the call leaves it, and the Result.        *)

\* mutant: the default write accepts and drops the values
default_write_accepting(reg, ed, values) == [reg |-> reg, editor |-> ed, ret |-> Ok]

\* the trait's default write and push
default_write(reg, ed, values) == [reg |-> reg, editor |-> ed, ret |-> NotWritable(name(reg))]
default_push(reg, ed, value)   == [reg |-> reg, editor |-> ed, ret |-> NotWritable(name(reg))]

SimpleRegister_read(reg) == reverse(reg.values)

SimpleRegister_write(reg, ed, values) ==
    [reg |-> [reg EXCEPT !.values = reverse(values)], editor |-> ed, ret |-> Ok]

\* mutant: the value is put at the front of the stored Vec
SimpleRegister_push_front(reg, ed, value) ==
    [reg |-> [reg EXCEPT !.values = <<value>> \o reg.values], editor |-> ed, ret |-> Ok]

SimpleRegister_push(reg, ed, value) ==
    [reg |-> [reg EXCEPT !.values = Append(reg.values, value)], editor |-> ed, ret |-> Ok]

\* the text "<empty>"
EMPTY == <<"<", "e", "m", "p", "t", "y", ">">>

\* the least index of "\n" in s, 0 when there is none
first_newline(s) ==
    IF \E k \in 1..Len(s) : s[k] = "\n"
    THEN CHOOSE k \in 1..Len(s) : s[k] = "\n" /\ \A j \in 1..(k - 1) : s[j] # "\n"
    ELSE 0

\* s.lines().next(): no line in an empty text; else the text up to the first
\* "\n", without it and without a "\r" right before it.  (A text that ends in a
\* bare "\r" with no "\n" after it is not among the inputs: what lines() makes
\* of it has changed between releases of the standard library.)
lines_next(s) ==
    IF s = <<>> THEN None
    ELSE LET k == first_newline(s)
         IN  IF k = 0 THEN Some(s)
             ELSE IF k > 1 /\ s[k - 1] = "\r" THEN Some(SubSeq(s, 1, k - 2))
             ELSE Some(SubSeq(s, 1, k - 1))

\* mutant: the first stored value is previewed, which is the last one read
SimpleRegister_preview_first(reg) ==
    IF reg.values = <<>> THEN EMPTY
    ELSE LET line == lines_next(reg.values[1])
         IN  IF line.tag = "Some" THEN line.val ELSE EMPTY

\* self.values.last().and_then(|s| s.lines().next()).unwrap_or("<empty>")
SimpleRegister_preview(reg) ==
    IF reg.values = <<>> THEN EMPTY
    ELSE LET line == lines_next(reg.values[Len(reg.values)])
         IN  IF line.tag = "Some" THEN line.val ELSE EMPTY

BlackholeRegister_read(reg) == <<>>

\* mutant: write is not overridden
BlackholeRegister_write_inherited(reg, ed, values) == default_write(reg, ed, values)

BlackholeRegister_write(reg, ed, values) == [reg |-> reg, editor |-> ed, ret |-> Ok]

BlackholeRegister_push(reg, ed, value) == [reg |-> reg, editor |-> ed, ret |-> Ok]

\* usize::to_string: the decimal digits of i
Digit(d) == <<"0", "1", "2", "3", "4", "5", "6", "7", "8", "9">>[d + 1]

RECURSIVE to_string(_)
to_string(i) == IF i < 10 THEN <<Digit(i)>> ELSE Append(to_string(i \div 10), Digit(i % 10))

\* mutant: the indices are not shifted to start at 1
SelectionIndexRegister_read_from_zero(reg, ed) ==
    LET selections == Len(ed.selection)
    IN  [i \in 1..selections |-> to_string(i - 1)]

\* (0..selections).map(|i| i.saturating_add(1).to_string())
SelectionIndexRegister_read(reg, ed) ==
    LET selections == Len(ed.selection)
    IN  [i \in 1..selections |-> to_string((i - 1) + 1)]

\* doc.selection(view.id).fragments(text)
SelectionContentsRegister_read(reg, ed) == ed.selection

SCRATCH_BUFFER_NAME == <<"[", "s", "c", "r", "a", "t", "c", "h", "]">>

DocumentPathRegister_read(reg, ed) ==
    <<IF ed.path.tag = "Some" THEN ed.path.val ELSE SCRATCH_BUFFER_NAME>>

ClipboardRegister_read(reg, ed, up) ==
    read_from_clipboard(reg.values, ed, clipboard_type(reg), up)

\* mutant: the values are stored only once the clipboard took them
ClipboardRegister_write_after(reg, ed, values, up) ==
    LET saved == save_to_clipboard(values, ed, clipboard_type(reg), up)
    IN  [reg    |-> IF saved.ret = Ok THEN [reg EXCEPT !.values = values] ELSE reg,
         editor |-> saved.editor, ret |-> saved.ret]

\* SystemClipboardRegister::write and PrimaryClipboardRegister::write
ClipboardRegister_write(reg, ed, values, up) ==
    LET stored == [reg EXCEPT !.values = values]
        saved  == save_to_clipboard(stored.values, ed, clipboard_type(reg), up)
    IN  [reg |-> stored, editor |-> saved.editor, ret |-> saved.ret]

\* mutant: the value is put first, as a SimpleRegister reads a pushed value
ClipboardRegister_push_front(reg, ed, value, up) ==
    LET stored == [reg EXCEPT !.values = <<value>> \o reg.values]
        saved  == save_to_clipboard(stored.values, ed, clipboard_type(reg), up)
    IN  [reg |-> stored, editor |-> saved.editor, ret |-> saved.ret]

\* SystemClipboardRegister::push and PrimaryClipboardRegister::push
ClipboardRegister_push(reg, ed, value, up) ==
    LET stored == [reg EXCEPT !.values = Append(reg.values, value)]
        saved  == save_to_clipboard(stored.values, ed, clipboard_type(reg), up)
    IN  [reg |-> stored, editor |-> saved.editor, ret |-> saved.ret]

\* Register::preview of each impl; the fixed labels are kept as TLA+ strings
Register_preview(reg) ==
    CASE reg.kind = "SimpleRegister"            -> SimpleRegister_preview(reg)
      [] reg.kind = "BlackholeRegister"         -> EMPTY
      [] reg.kind = "SelectionIndexRegister"    -> <<"<selection indices>">>
      [] reg.kind = "SelectionContentsRegister" -> <<"<selection contents>">>
      [] reg.kind = "DocumentPathRegister"      -> <<"<document path>">>
      [] reg.kind = "SystemClipboardRegister"   -> <<"<system clipboard>">>
      [] reg.kind = "PrimaryClipboardRegister"  -> <<"<primary clipboard>">>

\* dyn Register dispatch
Register_read(reg, ed, up) ==
    CASE reg.kind = "SimpleRegister"            -> SimpleRegister_read(reg)
      [] reg.kind = "BlackholeRegister"         -> BlackholeRegister_read(reg)
      [] reg.kind = "SelectionIndexRegister"    -> SelectionIndexRegister_read(reg, ed)
      [] reg.kind = "SelectionContentsRegister" -> SelectionContentsRegister_read(reg, ed)
      [] reg.kind = "DocumentPathRegister"      -> DocumentPathRegister_read(reg, ed)
      [] reg.kind \in ClipboardKinds            -> ClipboardRegister_read(reg, ed, up)

Register_write(reg, ed, values, up) ==
    CASE reg.kind = "SimpleRegister"    -> SimpleRegister_write(reg, ed, values)
      [] reg.kind = "BlackholeRegister" -> BlackholeRegister_write(reg, ed, values)
      [] reg.kind \in ReadOnlyKinds     -> default_write(reg, ed, values)
      [] reg.kind \in ClipboardKinds    -> ClipboardRegister_write(reg, ed, values, up)

Register_push(reg, ed, value, up) ==
    CASE reg.kind = "SimpleRegister"    -> SimpleRegister_push(reg, ed, value)
      [] reg.kind = "BlackholeRegister" -> BlackholeRegister_push(reg, ed, value)
      [] reg.kind \in ReadOnlyKinds     -> default_push(reg, ed, value)
      [] reg.kind \in ClipboardKinds    -> ClipboardRegister_push(reg, ed, value, up)

-----------------------------------------------------------------------------
(* impl Registers.  `regs` is the map `inner`; a name with no entry maps to *)
(* NoRegister.                                                              *)

Registers_get(regs, n) == IF regs[n] = NoRegister THEN None ELSE Some(regs[n])

Registers_read(regs, n, ed, up) ==
    IF regs[n] = NoRegister THEN None ELSE Some(Register_read(regs[n], ed, up))

Registers_write(regs, n, ed, values, up) ==
    IF regs[n] # NoRegister
    THEN LET r == Register_write(regs[n], ed, values, up)
         IN  [inner |-> [regs EXCEPT ![n] = r.reg], editor |-> r.editor, ret |-> r.ret]
    ELSE [inner |-> [regs EXCEPT ![n] = new_with_values(n, values)],
          editor |-> ed, ret |-> Ok]

\* mutant: a push on an unused name writes an empty Vec
Registers_push_empty(regs, n, ed, value, up) ==
    IF regs[n] # NoRegister
    THEN LET r == Register_push(regs[n], ed, value, up)
         IN  [inner |-> [regs EXCEPT ![n] = r.reg], editor |-> r.editor, ret |-> r.ret]
    ELSE Registers_write(regs, n, ed, <<>>, up)

Registers_push(regs, n, ed, value, up) ==
    IF regs[n] # NoRegister
    THEN LET r == Register_push(regs[n], ed, value, up)
         IN  [inner |-> [regs EXCEPT ![n] = r.reg], editor |-> r.editor, ret |-> r.ret]
    ELSE Registers_write(regs, n, ed, <<value>>, up)

\* HashMap::retain keeps the entries the closure answers true for
Registers_clear(regs) ==
    [n \in DOMAIN regs |-> IF ~(n \in SPECIAL_REGISTERS) THEN regs[n] ELSE NoRegister]

\* mutant: the special registers are not guarded
Registers_remove_unguarded(regs, n) ==
    [inner |-> [regs EXCEPT ![n] = NoRegister], ret |-> Registers_get(regs, n)]

Registers_remove(regs, n) ==
    IF n \in SPECIAL_REGISTERS
    THEN [inner |-> regs, ret |-> None]
    ELSE [inner |-> [regs EXCEPT ![n] = NoRegister], ret |-> Registers_get(regs, n)]

\* impl Default for Registers
Registers_default ==
    [n \in Names |->
        CASE n = "_" -> BlackholeRegister
          [] n = "#" -> SelectionIndexRegister
          [] n = "." -> SelectionContentsRegister
          [] n = "%" -> DocumentPathRegister
          [] n = "*" -> SystemClipboardRegister(<<>>)
          [] n = "+" -> PrimaryClipboardRegister(<<>>)
          [] OTHER   -> NoRegister]

-----------------------------------------------------------------------------
(* The state machine: one action per call on the registry, and the moves of *)
(* the environment (another process, the active document).                  *)

Unit == [tag |-> "Unit"]

Call(kind, n, values, up, ret) ==
    [kind |-> kind, name |-> n, values |-> values, up |-> up, ret |-> ret]

Init ==
    /\ inner = Registers_default
    /\ editor = [line_ending |-> LF,
                 clipboard   |-> [t \in ClipboardType |-> <<>>],
                 selection   |-> <<<<"a">>>>,
                 path        |-> None]
    /\ op = Call("new", "", <<>>, TRUE, Unit)

SimpleCount(regs) == Cardinality({n \in DOMAIN regs : regs[n].kind = "SimpleRegister"})

\* a call is made only while the map has room for the register it may create
HasRoom(n) == inner[n] = NoRegister => SimpleCount(inner) < MaxSimple

\* the transport can fail only in a call that reaches it
TransportOutcomes(n) == IF inner[n].kind \in ClipboardKinds THEN BOOLEAN ELSE {TRUE}

\* registers.write(name, editor, values), the values drawn from seqs
WriteOf(n, seqs) ==
    \E values \in seqs, up \in TransportOutcomes(n) :
        LET r == Registers_write(inner, n, editor, values, up)
        IN  /\ HasRoom(n)
            /\ inner' = r.inner
            /\ editor' = r.editor
            /\ op' = Call("write", n, values, up, r.ret)

Write(n) == WriteOf(n, ValueSeqs)

\* registers.push(name, editor, value), the value drawn from fragments
PushOf(n, fragments) ==
    \E value \in fragments, up \in TransportOutcomes(n) :
        LET r == Registers_push(inner, n, editor, value, up)
        IN  /\ HasRoom(n)
            /\ inner[n].kind \in StoringKinds => Len(inner[n].values) < MaxValues
            /\ inner' = r.inner
            /\ editor' = r.editor
            /\ op' = Call("push", n, <<value>>, up, r.ret)

Push(n) == PushOf(n, Values)

\* registers.read(name, editor), collected
Read(n) ==
    \E up \in TransportOutcomes(n) :
        /\ op' = Call("read", n, <<>>, up, Registers_read(inner, n, editor, up))
        /\ UNCHANGED <<inner, editor>>

\* registers.clear()
Clear ==
    /\ inner' = Registers_clear(inner)
    /\ op' = Call("clear", "", <<>>, TRUE, Unit)
    /\ UNCHANGED editor

\* registers.remove(name)
Remove(n) ==
    LET r == Registers_remove(inner, n)
    IN  /\ inner' = r.inner
        /\ op' = Call("remove", n, <<>>, TRUE, r.ret)
        /\ UNCHANGED editor

\* another process sets the text of a clipboard channel
ExternalCopy(t) ==
    \E text \in ExternalTexts :
        /\ editor.clipboard[t] # text
        /\ editor' = [editor EXCEPT !.clipboard[t] = text]
        /\ op' = Call("external", t, <<text>>, TRUE, Unit)
        /\ UNCHANGED inner

\* the active document becomes one with another line ending
SwitchLineEnding ==
    \E le \in LineEndings :
        /\ editor.line_ending # le
        /\ editor' = [editor EXCEPT !.line_ending = le]
        /\ op' = Call("line_ending", "", <<le>>, TRUE, Unit)
        /\ UNCHANGED inner

\* the registry used on the in-memory and the computed registers
RegistryNames == Names \ ClipboardNames

Next ==
    \/ \E n \in RegistryNames : Write(n)
    \/ \E n \in RegistryNames : Push(n)
    \/ \E n \in RegistryNames : Read(n)
    \/ \E n \in RegistryNames : Remove(n)
    \/ Clear

Spec == Init /\ [][Next]_vars

\* the channel behind each clipboard name at construction
ChannelOf(n) == IF n = "*" THEN "Clipboard" ELSE "Selection"

\* a clipboard name and its channel are as they were at construction (or cleared)
Pristine(n) ==
    /\ inner[n] \in {Registers_default[n], NoRegister}
    /\ editor.clipboard[ChannelOf(n)] = <<>>

\* a run works one clipboard name at a time: a name and its channel are touched
\* only while the other name and its channel are pristine
Turn(n) == \A m \in ClipboardNames \ {n} : Pristine(m)

\* the registry used on the clipboard registers, with the environment moving
NextClipboard ==
    \/ \E n \in ClipboardNames : Turn(n) /\ Write(n)
    \/ \E n \in ClipboardNames : Turn(n) /\ Push(n)
    \/ \E n \in ClipboardNames : Read(n)
    \/ \E n \in ClipboardNames : Remove(n)
    \/ Clear
    \/ \E n \in ClipboardNames : Turn(n) /\ ExternalCopy(ChannelOf(n))
    \/ SwitchLineEnding

SpecClipboard == Init /\ [][NextClipboard]_vars

-----------------------------------------------------------------------------
(* The matching algorithm on its own: a system clipboard register that      *)
(* cached some values, the channel holding any short text.                  *)

\* longest text on the channel
MaxText == 4

TextChars == {"a", "b", "\n", "\r"}

MatchTexts == SeqsUpTo(TextChars, MaxText)

\* cached values, one of them holding a line feed
MatchValues == {<<"a">>, <<"\n", "b">>}

InitMatching ==
    \E values \in SeqsUpTo(MatchValues, MaxValues), text \in MatchTexts, le \in LineEndings :
        /\ inner = [Registers_default EXCEPT !["*"] = SystemClipboardRegister(values)]
        /\ editor = [line_ending |-> le,
                     clipboard   |-> [t \in ClipboardType |->
                                         IF t = "Clipboard" THEN text ELSE <<>>],
                     selection   |-> <<<<"a">>>>,
                     path        |-> None]
        /\ op = Call("new", "", <<>>, TRUE, Unit)

\* contents_are_saved(saved_values, editor, &contents) as read_from_clipboard calls it
Match ==
    /\ op' = Call("contents_are_saved", "*", <<>>, TRUE,
                  [tag |-> "Bool",
                   val |-> contents_are_saved(inner["*"].values, editor,
                                              editor.clipboard["Clipboard"])])
    /\ UNCHANGED <<inner, editor>>

NextMatching ==
    \/ Match
    \/ Read("*")

SpecMatching == InitMatching /\ [][NextMatching]_vars

-----------------------------------------------------------------------------
(* The computed registers read while the selection and the document change *)

\* most selections in the current view
MaxSelections == 10

\* one more selection is made; its fragment is the text it spans
SelectMore ==
    \E fragment \in Values :
        /\ Len(editor.selection) < MaxSelections
        /\ editor' = [editor EXCEPT !.selection = Append(@, fragment)]
        /\ op' = Call("select", "", <<fragment>>, TRUE, Unit)
        /\ UNCHANGED inner

\* the last selection is dropped
SelectLess ==
    /\ editor.selection # <<>>
    /\ editor' = [editor EXCEPT !.selection = SubSeq(@, 1, Len(@) - 1)]
    /\ op' = Call("deselect", "", <<>>, TRUE, Unit)
    /\ UNCHANGED inner

\* the document is saved under a path
SetPath ==
    \E path \in {<<"f">>, <<"g">>} :
        /\ editor.path # Some(path)
        /\ editor' = [editor EXCEPT !.path = Some(path)]
        /\ op' = Call("path", "", <<path>>, TRUE, Unit)
        /\ UNCHANGED inner

ComputedNames == {"#", ".", "%"}

NextSelection ==
    \/ \E n \in ComputedNames : Read(n)
    \/ SelectMore
    \/ SelectLess
    \/ SetPath

SpecSelection == Init /\ [][NextSelection]_vars

-----------------------------------------------------------------------------
(* Both clipboard registers in use at once, each yanked its own fragment *)

\* the fragment written to each clipboard name
OwnValue(n) == IF n = "*" THEN <<"a">> ELSE <<"b">>

NextBoth ==
    \/ \E n \in ClipboardNames :
          Write(n) /\ op'.values \in SeqsUpTo({OwnValue(n)}, MaxValues)
    \/ \E n \in ClipboardNames :
          Push(n) /\ op'.values = <<OwnValue(n)>>
    \/ \E n \in ClipboardNames : Read(n)
    \/ \E t \in ClipboardType : ExternalCopy(t)

SpecBoth == Init /\ [][NextBoth]_vars

-----------------------------------------------------------------------------
(* One in-memory register holding texts of several lines, previewed *)

\* the fragments yanked: empty, one line, lines ended by "\n" and by "\r\n",
\* and one that starts with a line break
PreviewValues ==
    {<<>>, <<"b">>, <<"a", "\n", "b">>, <<"a", "\r", "\n", "b">>, <<"\n", "a">>}

\* registers.get(name).map(|reg| reg.preview()), as iter_preview pairs them
Preview(n) ==
    /\ op' = Call("preview", n, <<>>, TRUE,
                  IF inner[n] = NoRegister THEN None
                  ELSE Some(Register_preview(inner[n])))
    /\ UNCHANGED <<inner, editor>>

NextPreview ==
    \/ WriteOf("a", SeqsUpTo(PreviewValues, MaxValues))
    \/ PushOf("a", PreviewValues)
    \/ Read("a")
    \/ Preview("a")
    \/ Remove("a")

SpecPreview == Init /\ [][NextPreview]_vars

-----------------------------------------------------------------------------
(* Properties *)

\* what registers.read(name, editor) answers on a registry, the transport working
ReadIn(regs, ed, n) == Registers_read(regs, n, ed, TRUE)

ReadNow(n) == ReadIn(inner, editor, n)

\* C1: after clear(), every register whose name is not reserved is gone (get
\* answers none) and every reserved register is still there, unchanged.
C1_ClearKeepsOnlyReserved ==
    [][op'.kind = "clear" =>
          /\ \A n \in Names \ SPECIAL_REGISTERS : Registers_get(inner', n) = None
          /\ \A n \in SPECIAL_REGISTERS :
                inner'[n] # NoRegister /\ inner'[n] = inner[n]]_vars

\* C2: from the default registry, after any calls of write, push, clear and
\* remove, each reserved name still maps to a register of its pre-populated
\* kind: never absent, never a SimpleRegister.
C2_ReservedKeepTheirKind ==
    \A n \in SPECIAL_REGISTERS : inner[n].kind = Registers_default[n].kind

\* C3: for a non-reserved name n and any values vs, write(n, vs) succeeds and a
\* read(n) after it yields exactly vs in the caller's order, whether n had no
\* register or held a SimpleRegister with other values.
C3_WriteThenRead ==
    [][(op'.kind = "write" /\ op'.name \notin SPECIAL_REGISTERS) =>
          /\ inner[op'.name].kind \in {"NoRegister", "SimpleRegister"}
          /\ op'.ret = Ok
          /\ inner'[op'.name].kind = "SimpleRegister"
          /\ ReadIn(inner', editor', op'.name) = Some(op'.values)]_vars

C3_Witness ==
    /\ op.kind = "write"
    /\ op.name \in UserNames
    /\ op.values = <<<<"a">>, <<"b">>>>
    /\ ReadNow(op.name) = Some(<<<<"a">>, <<"b">>>>)

\* C4: on a SimpleRegister a write makes read yield the written values in
\* order, and every push puts its value first in what read yields, ahead of all
\* that read yielded before: write(n, vs), push(n, p1) .. push(n, pk) reads as
\* [pk, .., p1] followed by vs.
C4_PushedValueReadFirst ==
    [][/\ (op'.kind = "write" /\ inner'[op'.name].kind = "SimpleRegister") =>
              SimpleRegister_read(inner'[op'.name]) = op'.values
       /\ (op'.kind = "push" /\ inner[op'.name].kind = "SimpleRegister") =>
              /\ op'.ret = Ok
              /\ inner'[op'.name].kind = "SimpleRegister"
              /\ SimpleRegister_read(inner'[op'.name]) =
                     op'.values \o SimpleRegister_read(inner[op'.name])]_vars

\* write(n, []), push(n, a), push(n, b) was done and read gives [b, a]
C4_Witness ==
    /\ op.kind = "push"
    /\ op.values = <<<<"b">>>>
    /\ inner[op.name].kind = "SimpleRegister"
    /\ ReadNow(op.name) = Some(<<<<"b">>, <<"a">>>>)

\* C5: for a non-reserved name n with no register, push(n, v) leaves the
\* registry and the editor as write(n, [v]) would and returns what it would:
\* success, and a SimpleRegister named n that reads as [v].
C5_PushOnUnusedIsWrite ==
    [][(op'.kind = "push" /\ op'.name \notin SPECIAL_REGISTERS
                          /\ inner[op'.name] = NoRegister) =>
          LET w == Registers_write(inner, op'.name, editor, op'.values, op'.up)
          IN  /\ inner' = w.inner
              /\ editor' = w.editor
              /\ op'.ret = w.ret
              /\ op'.ret = Ok
              /\ inner'[op'.name].kind = "SimpleRegister"
              /\ name(inner'[op'.name]) = op'.name
              /\ ReadIn(inner', editor', op'.name) = Some(op'.values)]_vars

C5_Witness ==
    /\ op.kind = "push"
    /\ op.name \in UserNames
    /\ inner[op.name] = SimpleRegister(op.name, op.values)
    /\ Len(op.values) = 1

\* C6: remove on a reserved name returns none and changes nothing; remove on a
\* non-reserved name that has a register returns that register, get on the name
\* then answers none, and every other register is unchanged.
C6_Remove ==
    [][op'.kind = "remove" =>
          IF op'.name \in SPECIAL_REGISTERS
          THEN op'.ret = None /\ inner' = inner /\ editor' = editor
          ELSE inner[op'.name] # NoRegister =>
                  /\ op'.ret = Some(inner[op'.name])
                  /\ Registers_get(inner', op'.name) = None
                  /\ \A m \in Names \ {op'.name} : inner'[m] = inner[m]]_vars

C6_Witness ==
    /\ op.kind = "remove"
    /\ op.name \in UserNames
    /\ op.ret.tag = "Some"
    /\ Registers_get(inner, op.name) = None
    /\ inner["_"] = BlackholeRegister

\* C7: on the discard register '_', every write and every push through the
\* registry reports success, keeps the register what it was, and read('_')
\* yields an empty sequence after it, however many such calls were made.
C7_DiscardDropsEverything ==
    /\ [](inner["_"] = BlackholeRegister => ReadNow("_") = Some(<<>>))
    /\ [][(op'.kind \in {"write", "push"} /\ op'.name = "_"
               /\ inner["_"] = BlackholeRegister) =>
             /\ op'.ret = Ok
             /\ inner' = inner
             /\ ReadIn(inner', editor', "_") = Some(<<>>)]_vars

C7_Witness ==
    /\ op.kind = "write"
    /\ op.name = "_"
    /\ op.values = <<<<"a">>, <<"b">>>>
    /\ inner["_"] = BlackholeRegister
    /\ op.ret = Ok
    /\ ReadNow("_") = Some(<<>>)

\* C8: write and push through the registry on the read-only computed registers
\* '#', '.' and '%' fail with the not-writable error naming the register, and
\* leave every register and the editor as they were.
C8_ReadOnlyNotWritable ==
    [][(op'.kind \in {"write", "push"} /\ inner[op'.name].kind \in ReadOnlyKinds) =>
          /\ op'.name \in {"#", ".", "%"}
          /\ op'.ret = NotWritable(op'.name)
          /\ inner' = inner
          /\ editor' = editor]_vars

C8_Witness ==
    /\ op.kind = "push"
    /\ op.name = "%"
    /\ op.ret = NotWritable("%")
    /\ inner["%"] = DocumentPathRegister

\* C9: a successful write(c, vs) of a non-empty vs on a clipboard register c,
\* whatever happened before, sets c's channel to vs joined by the line ending of
\* the active document, and a read(c) after it, with the channel and the line
\* ending as the write left them, yields vs as separate values in order.
C9_ClipboardRoundTrip ==
    [][(op'.kind = "write" /\ inner[op'.name].kind \in ClipboardKinds
                           /\ op'.ret = Ok /\ op'.values # <<>>) =>
          /\ op'.name \in ClipboardNames
          /\ editor'.clipboard[ChannelOf(op'.name)] =
                 join(op'.values, editor.line_ending)
          /\ editor'.line_ending = editor.line_ending
          /\ ReadIn(inner', editor', op'.name) = Some(op'.values)]_vars

\* write('+', [a, b]) under "\r\n" succeeded: the primary channel holds a\r\nb
C9_Witness ==
    /\ op.kind = "write"
    /\ op.name = "+"
    /\ op.values = <<<<"a">>, <<"b">>>>
    /\ op.ret = Ok
    /\ inner["+"].kind = "PrimaryClipboardRegister"
    /\ editor.line_ending = CRLF
    /\ editor.clipboard["Selection"] = <<"a", "\r", "\n", "b">>
    /\ ReadNow("+") = Some(<<<<"a">>, <<"b">>>>)

\* C10: when the channel's text is one the matching algorithm does not match
\* against the cache, a read on the clipboard register, the transport working,
\* yields exactly one value, the channel's text as it is, and the cache and
\* the channel stay as they were.
C10_ForeignTextReadVerbatim ==
    [][(op'.kind = "read" /\ inner[op'.name].kind \in ClipboardKinds /\ op'.up
           /\ ~contents_are_saved(inner[op'.name].values, editor,
                                  editor.clipboard[ChannelOf(op'.name)])) =>
          /\ op'.ret = Some(<<editor.clipboard[ChannelOf(op'.name)]>>)
          /\ inner' = inner
          /\ editor' = editor]_vars

\* "zzz" was read from the system channel while the cache held [a, b]
C10_Witness ==
    /\ op.kind = "read"
    /\ op.name = "*"
    /\ op.up
    /\ inner["*"] = SystemClipboardRegister(<<<<"a">>, <<"b">>>>)
    /\ editor.clipboard["Clipboard"] = <<"z", "z", "z">>
    /\ op.ret = Some(<<<<"z", "z", "z">>>>)

\* C11: for a non-empty cache, contents_are_saved(cache, text) is true exactly
\* when text starts with the cached values joined by the line ending; text left
\* over after the last cached value still counts as a match.
C11_MatchIsPrefixOfJoin ==
    (op.kind = "contents_are_saved" /\ inner["*"].values # <<>>) =>
        (op.ret.val <=> starts_with(editor.clipboard["Clipboard"],
                                    join(inner["*"].values, editor.line_ending)))

\* ["a"] matched "ab": one character is left over
C11_Witness ==
    /\ op.kind = "contents_are_saved"
    /\ inner["*"].values = <<<<"a">>>>
    /\ editor.clipboard["Clipboard"] = <<"a", "b">>
    /\ op.ret.val = TRUE

\* C12: when the transport fails on a read of a clipboard register, the read
\* yields an empty sequence, not an error, whatever the cache holds, and the
\* cache, the channels and every other register stay as they were.
C12_ReadFailureYieldsNothing ==
    [][(op'.kind = "read" /\ inner[op'.name].kind \in ClipboardKinds /\ ~op'.up) =>
          /\ op'.ret = Some(<<>>)
          /\ inner' = inner
          /\ editor' = editor]_vars

\* the transport failed on a read of '*' while its cache held [a, b]
C12_Witness ==
    /\ op.kind = "read"
    /\ op.name = "*"
    /\ ~op.up
    /\ inner["*"] = SystemClipboardRegister(<<<<"a">>, <<"b">>>>)
    /\ op.ret = Some(<<>>)

\* C13: when the transport fails on a write or a push to a clipboard register,
\* the call returns the transport's error, the channels keep their text, and
\* the cache already holds the new values: replaced by a write, extended by a
\* push.  The cache is not rolled back.
C13_WriteFailureKeepsCache ==
    [][(op'.kind \in {"write", "push"} /\ inner[op'.name].kind \in ClipboardKinds
                                       /\ ~op'.up) =>
          /\ op'.ret = TransportError
          /\ editor' = editor
          /\ inner'[op'.name].kind = inner[op'.name].kind
          /\ inner'[op'.name].values =
                 IF op'.kind = "write" THEN op'.values
                 ELSE inner[op'.name].values \o op'.values
          /\ \A m \in Names \ {op'.name} : inner'[m] = inner[m]]_vars

\* a push of b on '+' failed: the cache holds [a, b], the channel still holds a
C13_Witness ==
    /\ op.kind = "push"
    /\ op.name = "+"
    /\ ~op.up
    /\ op.ret = TransportError
    /\ inner["+"] = PrimaryClipboardRegister(<<<<"a">>, <<"b">>>>)
    /\ editor.clipboard["Selection"] = <<"a">>

\* C15: a successful write on a clipboard register caches the written values,
\* and a successful push appends its value at the end of the cache and sets the
\* channel to the join of the whole updated cache; a read after it, nothing else
\* having changed, yields the cache: after write(c, vs) and pushes p1 .. pk it
\* yields vs followed by [p1, .., pk], oldest first.
C15_ClipboardPushAppends ==
    [][/\ (op'.kind = "write" /\ inner[op'.name].kind \in ClipboardKinds
                              /\ op'.ret = Ok) =>
              inner'[op'.name].values = op'.values
       /\ (op'.kind = "push" /\ inner[op'.name].kind \in ClipboardKinds
                             /\ op'.ret = Ok) =>
              /\ inner'[op'.name].values = inner[op'.name].values \o op'.values
              /\ editor'.clipboard[ChannelOf(op'.name)] =
                     join(inner[op'.name].values \o op'.values, editor.line_ending)
              /\ ReadIn(inner', editor', op'.name) =
                     Some(inner[op'.name].values \o op'.values)]_vars

\* write('*', [a]) and push('*', b) were done: read yields [a, b]
C15_Witness ==
    /\ op.kind = "push"
    /\ op.name = "*"
    /\ op.values = <<<<"b">>>>
    /\ op.ret = Ok
    /\ inner["*"] = SystemClipboardRegister(<<<<"a">>, <<"b">>>>)
    /\ editor.line_ending = LF
    /\ editor.clipboard["Clipboard"] = <<"a", "\n", "b">>
    /\ ReadNow("*") = Some(<<<<"a">>, <<"b">>>>)

\* C18: while a clipboard register's cache is empty (never written, or after a
\* successful write of no values) the matching algorithm does not match, and a
\* read, the transport working, yields exactly one value, the channel's text as
\* it is (one empty text when the channel is empty), never an empty sequence.
C18_EmptyCacheReadsChannel ==
    \A n \in ClipboardNames :
        (inner[n].kind \in ClipboardKinds /\ inner[n].values = <<>>) =>
            /\ ~contents_are_saved(inner[n].values, editor,
                                   editor.clipboard[ChannelOf(n)])
            /\ ReadNow(n) = Some(<<editor.clipboard[ChannelOf(n)]>>)
            /\ (op.kind = "read" /\ op.name = n /\ op.up) =>
                   /\ op.ret = Some(<<editor.clipboard[ChannelOf(n)]>>)
                   /\ Len(op.ret.val) = 1

\* '+' was read with an empty cache and an empty channel: one empty text
C18_Witness ==
    /\ op.kind = "read"
    /\ op.name = "+"
    /\ op.up
    /\ inner["+"] = PrimaryClipboardRegister(<<>>)
    /\ editor.clipboard["Selection"] = <<>>
    /\ op.ret = Some(<<<<>>>>)

\* C19: the matching on read uses the line ending of the document active at the
\* read: when the cache holds two or more values free of line-ending characters,
\* the channel holds them joined by "\n" (as a write under "\n" left them) and
\* the active line ending is "\r\n", read yields the channel's joined text as
\* one value, not the cached values.
C19_MatchUsesLineEndingAtRead ==
    \A n \in ClipboardNames :
        (/\ inner[n].kind \in ClipboardKinds
         /\ Len(inner[n].values) >= 2
         /\ editor.clipboard[ChannelOf(n)] = join(inner[n].values, LF)
         /\ editor.line_ending = CRLF) =>
            /\ ReadNow(n) = Some(<<join(inner[n].values, LF)>>)
            /\ (op.kind = "read" /\ op.name = n /\ op.up) =>
                   op.ret = Some(<<join(inner[n].values, LF)>>)

\* [a, b] was written under "\n" and '*' read under "\r\n": one value, a\nb
C19_Witness ==
    /\ op.kind = "read"
    /\ op.name = "*"
    /\ op.up
    /\ inner["*"] = SystemClipboardRegister(<<<<"a">>, <<"b">>>>)
    /\ editor.clipboard["Clipboard"] = <<"a", "\n", "b">>
    /\ editor.line_ending = CRLF
    /\ op.ret = Some(<<<<"a", "\n", "b">>>>)

\* the number a decimal text stands for
DigitValue ==
    [c \in {"0", "1", "2", "3", "4", "5", "6", "7", "8", "9"} |->
        CASE c = "0" -> 0 [] c = "1" -> 1 [] c = "2" -> 2 [] c = "3" -> 3
          [] c = "4" -> 4 [] c = "5" -> 5 [] c = "6" -> 6 [] c = "7" -> 7
          [] c = "8" -> 8 [] c = "9" -> 9]

RECURSIVE DecimalValue(_)
DecimalValue(t) ==
    IF t = <<>> THEN 0
    ELSE 10 * DecimalValue(SubSeq(t, 1, Len(t) - 1)) + DigitValue[t[Len(t)]]

\* t is the decimal text of i: digits only, no leading zero
IsDecimalOf(t, i) ==
    /\ t # <<>>
    /\ \A k \in 1..Len(t) : t[k] \in DOMAIN DigitValue
    /\ (Len(t) > 1 => t[1] # "0")
    /\ DecimalValue(t) = i

\* C14: a read of the selection-count register '#' yields exactly N values,
\* the decimal texts of 1, 2, .., N in order, N being the number of selections
\* of the current view at the time of the read (nothing is kept between reads);
\* with no selection it yields an empty sequence.
C14_SelectionIndices ==
    inner["#"] = SelectionIndexRegister =>
        /\ ReadNow("#").tag = "Some"
        /\ Len(ReadNow("#").val) = Len(editor.selection)
        /\ \A i \in 1..Len(editor.selection) : IsDecimalOf(ReadNow("#").val[i], i)
        /\ (op.kind = "read" /\ op.name = "#") => op.ret = ReadNow("#")
        /\ (op.kind = "read" /\ op.name = "#" /\ editor.selection = <<>>) =>
               op.ret = Some(<<>>)

\* '#' was read with three selections: "1", "2", "3"
C14_Witness ==
    /\ op.kind = "read"
    /\ op.name = "#"
    /\ Len(editor.selection) = 3
    /\ op.ret = Some(<<<<"1">>, <<"2">>, <<"3">>>>)

\* C16: the two clipboard registers are independent: a write, push or read on
\* '*' leaves the primary channel and the register '+' with its cache as they
\* were, and one on '+' leaves the system channel and the register '*' as they
\* were; no other register changes either.
C16_ClipboardsIndependent ==
    [][(op'.kind \in {"write", "push", "read"} /\ op'.name \in ClipboardNames
            /\ inner[op'.name].kind \in ClipboardKinds) =>
          /\ \A m \in Names \ {op'.name} : inner'[m] = inner[m]
          /\ \A m \in ClipboardNames \ {op'.name} :
                editor'.clipboard[ChannelOf(m)] = editor.clipboard[ChannelOf(m)]]_vars

\* [a, a] was written to '*' while '+' cached [b] and the primary channel held b
C16_Witness ==
    /\ op.kind = "write"
    /\ op.name = "*"
    /\ op.ret = Ok
    /\ inner["*"] = SystemClipboardRegister(<<<<"a">>, <<"a">>>>)
    /\ editor.clipboard["Clipboard"] = <<"a", "\n", "a">>
    /\ inner["+"] = PrimaryClipboardRegister(<<<<"b">>>>)
    /\ editor.clipboard["Selection"] = <<"b">>

\* the first line of a text as a reader takes it: the text up to its first
\* line break ("\n" or "\r\n"), the whole text when it has none
FirstLine(t) ==
    LET breaks == {k \in 1..Len(t) : t[k] = "\n"}
    IN  IF breaks = {} THEN t
        ELSE LET k == CHOOSE b \in breaks : \A c \in breaks : b <= c
                 upto == SubSeq(t, 1, k - 1)
             IN  IF upto # <<>> /\ upto[Len(upto)] = "\r"
                 THEN SubSeq(upto, 1, Len(upto) - 1)
                 ELSE upto

\* C17, as claimed: the preview of a SimpleRegister is the first line of the
\* value read yields first, and "<empty>" when the register holds no values.
C17_PreviewFirstLine ==
    \A n \in Names :
        inner[n].kind = "SimpleRegister" =>
            SimpleRegister_preview(inner[n]) =
                IF SimpleRegister_read(inner[n]) = <<>> THEN EMPTY
                ELSE FirstLine(SimpleRegister_read(inner[n])[1])

\* C17, amended: the preview of a SimpleRegister is "<empty>" when the register
\* holds no values or the value read yields first is the empty text, and the
\* first line of that value otherwise.
C17_PreviewFirstLineOrEmpty ==
    \A n \in Names :
        inner[n].kind = "SimpleRegister" =>
            /\ SimpleRegister_preview(inner[n]) =
                   IF \/ SimpleRegister_read(inner[n]) = <<>>
                      \/ SimpleRegister_read(inner[n])[1] = <<>>
                   THEN EMPTY
                   ELSE FirstLine(SimpleRegister_read(inner[n])[1])
            /\ (op.kind = "preview" /\ op.name = n) =>
                   op.ret = Some(SimpleRegister_preview(inner[n]))

\* a\r\nb was pushed after b and the register previewed: "a"
C17_Witness ==
    /\ op.kind = "preview"
    /\ op.name = "a"
    /\ ReadNow("a") = Some(<<<<"a", "\r", "\n", "b">>, <<"b">>>>)
    /\ op.ret = Some(<<"a">>)

\* C20: every register stored in the map reports, through name(), the
\* character it is keyed by, in every state write, push, clear and remove reach.
C20_NameIsKey ==
    \A n \in Names : inner[n] # NoRegister => name(inner[n]) = n

\* after clear() a write to '_' stored an in-memory register there, named '_'
C20_Witness ==
    /\ op.kind = "write"
    /\ op.name = "_"
    /\ inner["_"].kind = "SimpleRegister"
    /\ name(inner["_"]) = "_"

====
